---------------------------- MODULE Spec2Model ----------------------------
(***************************************************************************)
(* Project membership management of the todo-app backend                   *)
(* (src/todoapp/projects): the add-members and remove-members actions of   *)
(* ProjectMemberApiViewSet and the ProjectMemberSerializer behind them,    *)
(* over the Project / ProjectMember / User tables.                         *)
(*                                                                         *)
(* Spec     : every request runs as one atomic step (one call at a time).  *)
(* SpecConc : two requests in flight, interleaved at their database        *)
(*            statements (project snapshot, per-user counts, bulk write).  *)
(* SpecLen  : as Spec, with user_ids lists of up to MAX_LENGTH + 1 entries.*)
(* SpecTodo : the todo operations of TodoAPIViewSet (src/todoapp/todos)    *)
(*            while the clock runs.                                        *)
(* SpecApp  : membership calls, todo operations and the deletion of users  *)
(*            and projects, one at a time.                                 *)
(* SpecOwn  : every request of the todo API, reads included.               *)
(* SpecReport : fetch_users_with_n_pending_todos over any todo table.      *)
(***************************************************************************)
EXTENDS Integers, Sequences, FiniteSets, TLC

\* ------------------------------------------------------------------ bounds

\* Users 1..NumUsers exist; id NumUsers + 1 matches no user.
NumUsers == 3

\* Projects 1..NumProjects exist.
NumProjects == 3

\* max_members of a project is drawn from 1..MaxCap.
MaxCap == 2

\* Longest user_ids list a request of the model carries.
MaxLen == 2

\* Requests served in a behaviour of SpecConc, one per slot.
NumRequests == 2

\* Todos created in a behaviour: ids 1..MaxTodos.
MaxTodos == 2

\* The clock runs from 1 to MaxTime.
MaxTime == 2

\* ------------------------------------------------------- program constants

MIN_LENGTH == 1

MAX_LENGTH == 10

MAX_ASSOCIATED_PROJECTS == 2

NO_SPACE_LEFT == 0

\* A message is the tuple of its literal parts and formatted values.
ALREADY_MEMBER_OF_PROJECT == <<"User is already a member">>

MAX_ASSOCIATED_PROJECTS_LIMIT == <<"Cannot add as user is already a member in two projects">>

INVALID_USER_IDS == <<"Invalid ids present">>

NOT_A_MEMBER_OF_PROJECT == <<"User is not a member of the project">>

\* 'Max limit reached for project members. {remaining_members} members can
\* be added.'.format(remaining_members=n): the literal parts around n.
PROJECT_MEMBERS_MAX_LIMIT_REACHED(remaining_members) ==
    <<"Max limit reached for project members. ", remaining_members, " members can be added.">>

MEMBER_ADDED_SUCCESSFULLY == <<"Member added successfully">>

MEMBER_REMOVED_SUCCESSFULLY == <<"Member removed successfully">>

\* ------------------------------------------------------------------ domains

UserIds == 1..NumUsers

\* Ids a request may name: the users and one id with no user record.
RequestIds == 1..(NumUsers + 1)

ProjectIds == 1..NumProjects

Pairs == UserIds \X ProjectIds

RECURSIVE SortedList(_)
SortedList(S) ==
    IF S = {} THEN <<>>
    ELSE LET m == CHOOSE x \in S : \A y \in S : x <= y
         IN <<m>> \o SortedList(S \ {m})

\* The user_ids lists of the requests: every list of 0..MaxLen ids, in any
\* order and with repetitions, and every set of ids as an ascending list.
RequestLists ==
    UNION {[1..n -> RequestIds] : n \in 0..MaxLen}
        \cup {SortedList(S) : S \in SUBSET RequestIds}

\* The user_ids lists of the requests of SpecConc: 1..MaxLen ids of users.
ConcLists == UNION {[1..n -> UserIds] : n \in 1..MaxLen}

Ops == {"add-members", "remove-members"}

RECURSIVE Sum(_, _)
Sum(f, S) ==
    IF S = {} THEN 0
    ELSE LET x == CHOOSE y \in S : TRUE IN f[x] + Sum(f, S \ {x})

\* ------------------------------------------------------------------- state

VARIABLES
    User,           \* ids of the rows of the user table
    Project,        \* project table: id -> max_members
    ProjectMember,  \* through table: <<member, project>> -> number of rows
    call,           \* the request served last in Spec (NoCall between requests)
    reqs,           \* SpecConc: slot -> the request in flight there, its locals
    Todo,           \* todo table: id -> [user, name, done, date_created, date_completed]
    todo_id_seq,    \* the last id the todo table's id sequence gave out
    now             \* the clock timezone.now() reads

vars == <<User, Project, ProjectMember, call, reqs, Todo, todo_id_seq, now>>

\* The todo table, its sequence and the clock.
todo_vars == <<Todo, todo_id_seq, now>>

Slots == 1..NumRequests

Idle == [pc |-> "idle"]

NoCall == [op |-> "none"]

\* The detail of a ValidationError: the field and the message (or, for the
\* framework's own length validators, their code).
NoError == [field |-> "", message |-> <<>>]

\* Faulty variant: the error is not attached to the field.
ValidationError_NonField(field, message) ==
    [field |-> "non_field_errors", message |-> message]

ValidationError(field, message) == [field |-> field, message |-> message]

\* ------------------------------------------------------------ the database

\* Number of ProjectMember rows of project p.
ProjectRows(pm, p) == Sum([u \in UserIds |-> pm[<<u, p>>]], UserIds)

\* Number of ProjectMember rows of user u.
UserRows(pm, u) == Sum([p \in ProjectIds |-> pm[<<u, p>>]], ProjectIds)

Members(pm, p) == {u \in UserIds : pm[<<u, p>>] > 0}

\* unique_together = ('member', 'project'): an INSERT of rows that would
\* make a pair occur twice is rejected as a whole.
UniqueViolation(pm, project_id, member_ids) ==
    \E u \in member_ids : pm[<<u, project_id>>] >= 1

\* Faulty variant: the table has no unique constraint.
bulk_create_NoUnique(pm, project_id, member_ids) ==
    [ok |-> TRUE,
     pm |-> [x \in Pairs |->
               IF x[2] = project_id /\ x[1] \in member_ids
               THEN pm[x] + 1 ELSE pm[x]]]

\* Faulty variant: the rows are inserted into every project.
bulk_create_EveryProject(pm, project_id, member_ids) ==
    [ok |-> TRUE,
     pm |-> [x \in Pairs |-> IF x[1] \in member_ids THEN pm[x] + 1 ELSE pm[x]]]

\* ProjectMember.objects.bulk_create(users_to_be_added): one INSERT of a row
\* (project_id, member_id) per object; [ok, pm] with pm the table afterwards.
bulk_create(pm, project_id, member_ids) ==
    IF UniqueViolation(pm, project_id, member_ids)
    THEN [ok |-> FALSE, pm |-> pm]
    ELSE [ok |-> TRUE,
          pm |-> [x \in Pairs |->
                    IF x[2] = project_id /\ x[1] \in member_ids
                    THEN pm[x] + 1 ELSE pm[x]]]

\* Faulty variant: the delete is not filtered by project.
bulk_delete_AllProjects(pm, project_id, member_ids) ==
    [x \in Pairs |-> IF x[1] \in member_ids THEN 0 ELSE pm[x]]

\* ProjectMember.objects.filter(project_id=..., member_id__in=...).delete()
bulk_delete(pm, project_id, member_ids) ==
    [x \in Pairs |-> IF x[2] = project_id /\ x[1] \in member_ids THEN 0 ELSE pm[x]]

\* ---------------------------------------------------------------- the view

\* Faulty variant: the queryset is not filtered by the requesting user.
get_queryset_NoFilter(proj, pm, user) ==
    {[id |-> p,
      existing_members |-> ProjectRows(pm, p),
      max_members |-> proj[p],
      users |-> Members(pm, p)] : p \in DOMAIN proj}

\* Faulty variant: a project without members is open to every user.
get_queryset_OrEmpty(proj, pm, user) ==
    {[id |-> p,
      existing_members |-> ProjectRows(pm, p),
      max_members |-> proj[p],
      users |-> Members(pm, p)] :
        p \in {q \in DOMAIN proj :
                  user \in UserIds /\ (pm[<<user, q>>] > 0 \/ ProjectRows(pm, q) = 0)}}

\* get_queryset(): the projects the requesting user is a member of, each with
\* existing_members = Count('projectmember__id') and users =
\* ArrayAgg('projectmember__member__id'). The filter after the annotations
\* joins projectmember a second time, so each member row is counted once per
\* row of the requesting user in the project (once, under the unique
\* constraint).
get_queryset(proj, pm, user) ==
    {[id |-> p,
      existing_members |-> ProjectRows(pm, p) * pm[<<user, p>>],
      max_members |-> proj[p],
      users |-> Members(pm, p)] :
        p \in {q \in DOMAIN proj : user \in UserIds /\ pm[<<user, q>>] > 0}}

\* get_object(): the project of the queryset with the id of the url, or 404.
get_object(proj, pm, user, project_id) ==
    {project \in get_queryset(proj, pm, user) : project.id = project_id}

\* ---------------------------------------------------------- the serializer

Range(s) == {s[i] : i \in DOMAIN s}

\* Faulty variant: the length of the deduplicated list is validated.
LengthValid_Dedup(data) ==
    Cardinality(Range(data)) >= MIN_LENGTH /\ Cardinality(Range(data)) <= MAX_LENGTH

\* is_valid(): the ListField's min_length / max_length on the list as sent.
LengthValid(data) == Len(data) >= MIN_LENGTH /\ Len(data) <= MAX_LENGTH

\* Faulty variant: only the first id of the list is kept.
validate_user_ids_First(user_ids) ==
    IF user_ids = <<>> THEN {} ELSE {user_ids[1]}

\* validate_user_ids(): list(set(user_ids)).
validate_user_ids(user_ids) == Range(user_ids)

\* get_user_wise_project_count_and_valid_user_ids(): for the requested ids
\* that are users, the number of their project rows; its keys are the valid
\* ids.
get_user_wise_project_count(users, pm, user_ids) ==
    [u \in (user_ids \cap users) |-> UserRows(pm, u)]

\* Faulty variant: invalid ids are dropped instead of failing the request.
check_for_invalid_user_ids_Never(user_ids, valid_user_ids) ==
    FALSE

\* check_for_invalid_user_ids(): TRUE when the ValidationError is raised.
check_for_invalid_user_ids(user_ids, valid_user_ids) ==
    (user_ids \ valid_user_ids) # {}

\* Faulty variant: the limit test lets a user in exactly 2 projects through.
Classify_LimitOffByOne(project, user_wise_project_count, user_id) ==
    IF user_id \in project.users THEN "already"
    ELSE IF user_wise_project_count[user_id] > MAX_ASSOCIATED_PROJECTS THEN "limit"
    ELSE "add"

\* Faulty variant: the membership test is missing.
Classify_NoMemberTest(project, user_wise_project_count, user_id) ==
    IF user_wise_project_count[user_id] >= MAX_ASSOCIATED_PROJECTS THEN "limit"
    ELSE "add"

\* Faulty variant: the limit is tested before the membership.
Classify_LimitFirst(project, user_wise_project_count, user_id) ==
    IF user_wise_project_count[user_id] >= MAX_ASSOCIATED_PROJECTS THEN "limit"
    ELSE IF user_id \in project.users THEN "already"
    ELSE "add"

\* The branch of the loop of add_members taken for user_id.
Classify(project, user_wise_project_count, user_id) ==
    IF user_id \in project.users THEN "already"
    ELSE IF user_wise_project_count[user_id] >= MAX_ASSOCIATED_PROJECTS THEN "limit"
    ELSE "add"

\* users_to_be_added after the loop (their member ids).
users_to_be_added(project, user_wise_project_count, valid_user_ids) ==
    {u \in valid_user_ids : Classify(project, user_wise_project_count, u) = "add"}

\* Faulty variant: the comparison admits one member too many.
project_max_limit_reached_OffByOne(project, to_be_added) ==
    project.existing_members + Cardinality(to_be_added) > project.max_members + 1

\* Faulty variant: the batch is not counted, only the members there already.
project_max_limit_reached_NoBatch(project, to_be_added) ==
    project.existing_members >= project.max_members

\* project_max_limit_reached
project_max_limit_reached(project, to_be_added) ==
    project.existing_members + Cardinality(to_be_added) > project.max_members

\* Faulty variant: the difference is not clamped at NO_SPACE_LEFT.
remaining_members_Unclamped(project) ==
    project.max_members - project.existing_members

\* remaining_members of the message
remaining_members(project) ==
    IF project.existing_members >= project.max_members
    THEN NO_SPACE_LEFT
    ELSE project.max_members - project.existing_members

\* logs of add_members
add_logs(project, user_wise_project_count, valid_user_ids) ==
    LET to_be_added == users_to_be_added(project, user_wise_project_count, valid_user_ids)
        reached == project_max_limit_reached(project, to_be_added)
    IN [u \in valid_user_ids |->
          CASE Classify(project, user_wise_project_count, u) = "already" ->
                   ALREADY_MEMBER_OF_PROJECT
            [] Classify(project, user_wise_project_count, u) = "limit" ->
                   MAX_ASSOCIATED_PROJECTS_LIMIT
            [] OTHER ->
                   IF reached
                   THEN PROJECT_MEMBERS_MAX_LIMIT_REACHED(remaining_members(project))
                   ELSE MEMBER_ADDED_SUCCESSFULLY]

\* ---- add_members with the iteration order of valid_user_ids made explicit
\* (valid_user_ids is a Python set: the order of the for loop is whatever the
\* set yields).

\* Faulty variant: the capacity is tested inside the loop, id by id.
loop_body_Greedy(project, user_wise_project_count, acc, user_id) ==
    IF user_id \in project.users
    THEN [acc EXCEPT !.logs = (user_id :> ALREADY_MEMBER_OF_PROJECT) @@ @]
    ELSE IF user_wise_project_count[user_id] >= MAX_ASSOCIATED_PROJECTS
    THEN [acc EXCEPT !.logs = (user_id :> MAX_ASSOCIATED_PROJECTS_LIMIT) @@ @]
    ELSE IF project.existing_members + Len(acc.users_to_be_added) + 1 > project.max_members
    THEN [acc EXCEPT !.logs =
             (user_id :> PROJECT_MEMBERS_MAX_LIMIT_REACHED(
                  project.max_members - project.existing_members
                      - Len(acc.users_to_be_added))) @@ @]
    ELSE [logs |-> (user_id :> MEMBER_ADDED_SUCCESSFULLY) @@ acc.logs,
          users_to_be_added |-> Append(acc.users_to_be_added, user_id)]

\* One pass of the body of "for user_id in valid_user_ids" over
\* acc = [logs, users_to_be_added].
loop_body(project, user_wise_project_count, acc, user_id) ==
    IF user_id \in project.users
    THEN [acc EXCEPT !.logs = (user_id :> ALREADY_MEMBER_OF_PROJECT) @@ @]
    ELSE IF user_wise_project_count[user_id] >= MAX_ASSOCIATED_PROJECTS
    THEN [acc EXCEPT !.logs = (user_id :> MAX_ASSOCIATED_PROJECTS_LIMIT) @@ @]
    ELSE [logs |-> (user_id :> MEMBER_ADDED_SUCCESSFULLY) @@ acc.logs,
          users_to_be_added |-> Append(acc.users_to_be_added, user_id)]

\* The for loop over the ids in the order given.
RECURSIVE classify_loop(_, _, _, _)
classify_loop(project, user_wise_project_count, order, acc) ==
    IF order = <<>> THEN acc
    ELSE classify_loop(project, user_wise_project_count, Tail(order),
                       loop_body(project, user_wise_project_count, acc, Head(order)))

\* add_members after check_for_invalid_user_ids, iterating in the order
\* given: the logs returned and the member ids handed to bulk_create.
add_members_in_order(project, user_wise_project_count, order) ==
    LET acc == classify_loop(project, user_wise_project_count, order,
                             [logs |-> <<>>, users_to_be_added |-> <<>>])
        n == Len(acc.users_to_be_added)
        reached == project.existing_members + n > project.max_members
        message == PROJECT_MEMBERS_MAX_LIMIT_REACHED(
                       IF project.existing_members >= project.max_members
                       THEN NO_SPACE_LEFT
                       ELSE project.max_members - project.existing_members)
    IN [logs |-> IF reached
                 THEN [u \in DOMAIN acc.logs |->
                          IF u \in Range(acc.users_to_be_added)
                          THEN message ELSE acc.logs[u]]
                 ELSE acc.logs,
        created |-> IF ~reached /\ n > 0
                    THEN Range(acc.users_to_be_added) ELSE {}]

\* Faulty variant: every requested id counts toward the capacity, not only
\* the objects of users_to_be_added.
add_members_CountsAll(project, user_ids, user_wise_project_count, pm) ==
    LET valid_user_ids == DOMAIN user_wise_project_count
        to_be_added == users_to_be_added(project, user_wise_project_count, valid_user_ids)
        reached == project_max_limit_reached(project, valid_user_ids)
        created == bulk_create(pm, project.id, to_be_added)
    IN IF check_for_invalid_user_ids(user_ids, valid_user_ids)
       THEN [status |-> 400, logs |-> <<>>, pm |-> pm,
             errors |-> ValidationError("user_ids", INVALID_USER_IDS)]
       ELSE [status |-> IF ~reached /\ to_be_added # {} /\ ~created.ok THEN 500 ELSE 200,
             errors |-> NoError,
             logs |-> add_logs(project, user_wise_project_count, valid_user_ids),
             pm |-> IF ~reached /\ to_be_added # {} THEN created.pm ELSE pm]

\* add_members(project), from the counts on: [status, logs, pm].
\* status 400: ValidationError; 500: IntegrityError of bulk_create, not
\* caught; 200: Response(logs).
add_members(project, user_ids, user_wise_project_count, pm) ==
    LET valid_user_ids == DOMAIN user_wise_project_count
        to_be_added == users_to_be_added(project, user_wise_project_count, valid_user_ids)
        reached == project_max_limit_reached(project, to_be_added)
        created == bulk_create(pm, project.id, to_be_added)
    IN IF check_for_invalid_user_ids(user_ids, valid_user_ids)
       THEN [status |-> 400, logs |-> <<>>, pm |-> pm,
             errors |-> ValidationError("user_ids", INVALID_USER_IDS)]
       ELSE IF ~reached /\ to_be_added # {}
       THEN IF created.ok
            THEN [status |-> 200, errors |-> NoError,
                  logs |-> add_logs(project, user_wise_project_count, valid_user_ids),
                  pm |-> created.pm]
            ELSE [status |-> 500, errors |-> NoError, logs |-> <<>>, pm |-> pm]
       ELSE [status |-> 200, errors |-> NoError,
             logs |-> add_logs(project, user_wise_project_count, valid_user_ids),
             pm |-> pm]

\* users_to_remove after the loop of remove_members.
users_to_remove(project, valid_user_ids) ==
    {u \in valid_user_ids : u \in project.users}

\* remove_members(project), from the counts on: [status, logs, pm].
remove_members(project, user_ids, user_wise_project_count, pm) ==
    LET valid_user_ids == DOMAIN user_wise_project_count
        to_remove == users_to_remove(project, valid_user_ids)
    IN IF check_for_invalid_user_ids(user_ids, valid_user_ids)
       THEN [status |-> 400, logs |-> <<>>, pm |-> pm,
             errors |-> ValidationError("user_ids", INVALID_USER_IDS)]
       ELSE [status |-> 200, errors |-> NoError,
             logs |-> [u \in valid_user_ids |->
                         IF u \in project.users
                         THEN MEMBER_REMOVED_SUCCESSFULLY
                         ELSE NOT_A_MEMBER_OF_PROJECT],
             pm |-> IF to_remove # {}
                    THEN bulk_delete(pm, project.id, to_remove)
                    ELSE pm]

\* One request served from the tables (users, proj, pm) without interruption:
\* get_object, is_valid, then add_members or remove_members. The result is
\* the table afterwards and the record of the call: what was asked, the
\* table before, and the response (404 leaves request.data unread).
Serve(op, users, proj, pm, user, project_id, data) ==
    LET found == get_object(proj, pm, user, project_id)
        project == CHOOSE x \in found : TRUE
        user_ids == validate_user_ids(data)
        counts == get_user_wise_project_count(users, pm, user_ids)
        base == [op |-> op, user |-> user, project_id |-> project_id, before |-> pm]
        r == IF op = "add-members"
             THEN add_members(project, user_ids, counts, pm)
             ELSE remove_members(project, user_ids, counts, pm)
    IN IF found = {}
       THEN [pm |-> pm,
             call |-> base @@ [status |-> 404]]
       ELSE IF ~LengthValid(data)
       THEN [pm |-> pm,
             call |-> base @@ [status |-> 400, data |-> data,
                   errors |-> ValidationError("user_ids",
                       IF Len(data) < MIN_LENGTH THEN <<"min_length">>
                       ELSE <<"max_length">>)]]
       ELSE [pm |-> r.pm,
             call |-> base @@ [status |-> r.status, data |-> data,
                               errors |-> r.errors, logs |-> r.logs]]

\* -------------------------------------------------------------------- Spec

\* Any tables in which no pair occurs twice and every user has at most
\* MAX_ASSOCIATED_PROJECTS memberships (rows are first created through the
\* admin site, which checks neither limit; max_members may be below the
\* number of members). Project ids are opaque to the code: the projects are
\* numbered by ascending max_members.
Init ==
    /\ User = UserIds
    /\ Project \in [ProjectIds -> 1..MaxCap]
    /\ \A p, q \in ProjectIds : p <= q => Project[p] <= Project[q]
    /\ ProjectMember \in [Pairs -> 0..1]
    /\ \A u \in UserIds : UserRows(ProjectMember, u) <= MAX_ASSOCIATED_PROJECTS
    /\ call = NoCall
    /\ reqs = [r \in Slots |-> Idle]
    /\ Todo = <<>>
    /\ todo_id_seq = 0
    /\ now = 1

\* PATCH projects/<project_id>/add-members/ by user, served in one step.
add_members_to_project(user, project_id, data) ==
    LET r == Serve("add-members", User, Project, ProjectMember, user, project_id, data)
    IN /\ call = NoCall
       /\ ProjectMember' = r.pm
       /\ call' = r.call
       /\ UNCHANGED <<User, Project, reqs, todo_vars>>

\* PATCH projects/<project_id>/remove-members/ by user, served in one step.
remove_members_from_project(user, project_id, data) ==
    LET r == Serve("remove-members", User, Project, ProjectMember, user, project_id, data)
    IN /\ call = NoCall
       /\ ProjectMember' = r.pm
       /\ call' = r.call
       /\ UNCHANGED <<User, Project, reqs, todo_vars>>

\* The response is sent and the request's objects are dropped.
Respond ==
    /\ call # NoCall
    /\ call' = NoCall
    /\ UNCHANGED <<User, Project, ProjectMember, reqs, todo_vars>>

Next ==
    \/ \E user \in UserIds, project_id \in ProjectIds, data \in RequestLists :
          add_members_to_project(user, project_id, data)
    \/ \E user \in UserIds, project_id \in ProjectIds, data \in RequestLists :
          remove_members_from_project(user, project_id, data)
    \/ Respond

Spec == Init /\ [][Next]_vars

\* ---------------------------------------------------------------- SpecConc
\* Add-members requests served concurrently. Nothing in the view or the
\* serializer opens a transaction or takes a lock, so requests interleave
\* between their database statements: the SELECT of get_object, the SELECT
\* of get_user_wise_project_count_and_valid_user_ids and the INSERT of
\* bulk_create. Each statement is atomic; the code between two statements
\* works on the request's own objects.

\* Every project has exactly one member, no user has more than
\* MAX_ASSOCIATED_PROJECTS memberships, projects numbered by ascending
\* max_members.
InitConc ==
    /\ User = UserIds
    /\ Project \in [ProjectIds -> 1..MaxCap]
    /\ \A p, q \in ProjectIds : p <= q => Project[p] <= Project[q]
    /\ ProjectMember \in [Pairs -> 0..1]
    /\ \A p \in ProjectIds : ProjectRows(ProjectMember, p) = 1
    /\ \A u \in UserIds : UserRows(ProjectMember, u) <= MAX_ASSOCIATED_PROJECTS
    /\ call = NoCall
    /\ reqs = [r \in Slots |-> Idle]
    /\ Todo = <<>>
    /\ todo_id_seq = 0
    /\ now = 1

\* add_members_to_project up to its first statement and the validation that
\* follows it: project = self.get_object(); serializer.is_valid(). The
\* requests are numbered in the order of their first statement.
GetObject(r, user, project_id, data) ==
    LET found == get_object(Project, ProjectMember, user, project_id)
        project == CHOOSE x \in found : TRUE
    IN /\ reqs[r].pc = "idle"
       /\ \A q \in Slots : q < r => reqs[q].pc # "idle"
       /\ reqs' = [reqs EXCEPT ![r] =
             IF found = {}
             THEN [pc |-> "done", op |-> "add-members", status |-> 404]
             ELSE IF ~LengthValid(data)
             THEN [pc |-> "done", op |-> "add-members", status |-> 400]
             ELSE [pc |-> "add_members", op |-> "add-members",
                   project |-> project, user_ids |-> validate_user_ids(data)]]
       /\ UNCHANGED <<User, Project, ProjectMember, call, todo_vars>>

\* add_members: the query of get_user_wise_project_count_and_valid_user_ids.
GetCounts(r) ==
    /\ reqs[r].pc = "add_members"
    /\ reqs' = [reqs EXCEPT ![r] =
          [pc |-> "bulk_create", op |-> "add-members",
           project |-> reqs[r].project, user_ids |-> reqs[r].user_ids,
           user_wise_project_count |->
               get_user_wise_project_count(User, ProjectMember, reqs[r].user_ids)]]
    /\ UNCHANGED <<User, Project, ProjectMember, call, todo_vars>>

\* add_members from check_for_invalid_user_ids to the end: the loop, the
\* capacity test, bulk_create on the table as it is now, and the response.
BulkCreate(r) ==
    LET res == add_members(reqs[r].project, reqs[r].user_ids,
                           reqs[r].user_wise_project_count, ProjectMember)
    IN /\ reqs[r].pc = "bulk_create"
       /\ ProjectMember' = res.pm
       /\ reqs' = [reqs EXCEPT ![r] =
             [pc |-> "done", op |-> "add-members", status |-> res.status,
              project |-> reqs[r].project, user_ids |-> reqs[r].user_ids,
              user_wise_project_count |-> reqs[r].user_wise_project_count,
              logs |-> res.logs]]
       /\ UNCHANGED <<User, Project, call, todo_vars>>

NextConc ==
    \/ \E r \in Slots, user \in UserIds, project_id \in ProjectIds, data \in ConcLists :
          GetObject(r, user, project_id, data)
    \/ \E r \in Slots : GetCounts(r)
    \/ \E r \in Slots : BulkCreate(r)

SpecConc == InitConc /\ [][NextConc]_vars

\* ----------------------------------------------------------------- SpecLen
\* One call at a time, as in Spec, with user_ids lists of up to
\* MAX_LENGTH + 1 entries.

\* The list of n entries that goes round the ids of S in ascending order.
Cycle(S, n) ==
    [i \in 1..n |-> SortedList(S)[((i - 1) % Cardinality(S)) + 1]]

\* The list 1, 2, ..., n: n distinct ids, those above NumUsers matching no
\* user.
Iota(n) == [i \in 1..n |-> i]

\* Lists of 0 to MAX_LENGTH + 1 entries: copies of one id, two ids in
\* turn at the lengths around the limits, and distinct ids.
LongLists ==
    {Cycle({u}, n) : u \in RequestIds, n \in 0..(MAX_LENGTH + 1)}
        \cup {Cycle(S, n) : S \in {T \in SUBSET UserIds : Cardinality(T) = 2},
                            n \in {MIN_LENGTH + 1, MAX_LENGTH, MAX_LENGTH + 1}}
        \cup {Iota(n) : n \in 0..(MAX_LENGTH + 1)}

NextLen ==
    \/ \E user \in UserIds, project_id \in ProjectIds, data \in LongLists :
          add_members_to_project(user, project_id, data)
    \/ \E user \in UserIds, project_id \in ProjectIds, data \in LongLists :
          remove_members_from_project(user, project_id, data)
    \/ Respond

SpecLen == InitConc /\ [][NextLen]_vars

\* ------------------------------------------------------------ the todos
\* TodoAPIViewSet (src/todoapp/todos): create, update, partial_update and
\* destroy of the requesting user's todos. list and retrieve write nothing.

\* Names of todos.
Names == {"a", "b"}

\* A null column.
None == <<>>

\* A DateTimeField holding the time t.
Timestamp(t) == <<t>>

\* A key of the request data or of attrs: absent, or present with value v.
Absent == <<>>

Present(v) == <<v>>

\* The times a client writes into a date_completed it sends.
SentTimes == {1}

\* Request bodies of update and partial_update: the writable fields 'done',
\* 'todo' and 'date_completed' (write only; null is accepted), each present
\* or not. 'name' and 'date_created' are read only.
UpdateData ==
    [done : {Absent, Present(TRUE), Present(FALSE)},
     todo : {Absent} \cup {Present(n) : n \in Names},
     date_completed : {Absent, Present(None)}
                          \cup {Present(Timestamp(t)) : t \in SentTimes}]

\* Faulty variant: the queryset is every todo.
todo_get_queryset_All(todos, user) ==
    DOMAIN todos

\* TodoAPIViewSet.get_queryset(): the todos of the requesting user.
todo_get_queryset(todos, user) ==
    {i \in DOMAIN todos : todos[i].user = user}

\* UpdateTodoSerializer.validate(): attrs after it, date_completed added
\* according to the value of 'done' sent.
UpdateTodoSerializer_validate(attrs, clock) ==
    [done |-> attrs.done,
     name |-> attrs.todo,
     date_completed |->
         IF attrs.done = Present(TRUE) THEN Present(Timestamp(clock))
         ELSE IF attrs.done = Present(FALSE) THEN Present(None)
         ELSE attrs.date_completed]

\* ModelSerializer.update(): every key of the validated data is set on the
\* instance.
todo_update(instance, validated_data) ==
    [user |-> instance.user,
     name |-> IF validated_data.name = Absent THEN instance.name
              ELSE validated_data.name[1],
     done |-> IF validated_data.done = Absent THEN instance.done
              ELSE validated_data.done[1],
     date_created |-> instance.date_created,
     date_completed |-> IF validated_data.date_completed = Absent
                        THEN instance.date_completed
                        ELSE validated_data.date_completed[1]]

\* What every call record carries: the operation, the user, and the
\* membership table and the todo table before it.
CallBase(op, user) ==
    [op |-> op, user |-> user, before |-> ProjectMember, todos |-> Todo]

\* POST todos/ by user: CreateTodoSerializer ('done' is read only, so the
\* default False is stored) and perform_create.
create_todo(user, name) ==
    /\ call = NoCall
    /\ user \in User
    /\ todo_id_seq < MaxTodos
    /\ todo_id_seq' = todo_id_seq + 1
    /\ Todo' = [i \in DOMAIN Todo \cup {todo_id_seq + 1} |->
                   IF i = todo_id_seq + 1
                   THEN [user |-> user, name |-> name, done |-> FALSE,
                         date_created |-> Timestamp(now),
                         date_completed |-> None]
                   ELSE Todo[i]]
    /\ call' = CallBase("create-todo", user)
                   @@ [status |-> 201, todo_id |-> todo_id_seq + 1]
    /\ UNCHANGED <<User, Project, ProjectMember, reqs, now>>

\* PUT (partial = FALSE) or PATCH (partial = TRUE) todos/<todo_id>/ by user:
\* get_object, UpdateTodoSerializer.is_valid, save.
update_todo(user, todo_id, partial, data) ==
    /\ call = NoCall
    /\ user \in User
    /\ IF todo_id \notin todo_get_queryset(Todo, user)
       THEN /\ call' = CallBase("update-todo", user)
                           @@ [status |-> 404, todo_id |-> todo_id]
            /\ Todo' = Todo
       ELSE IF ~partial /\ (data.done = Absent \/ data.todo = Absent)
       THEN /\ call' = CallBase("update-todo", user)
                           @@ [status |-> 400, todo_id |-> todo_id, data |-> data]
            /\ Todo' = Todo
       ELSE /\ call' = CallBase("update-todo", user)
                           @@ [status |-> 200, todo_id |-> todo_id, data |-> data,
                               row |-> Todo[todo_id]]
            /\ Todo' = [Todo EXCEPT ![todo_id] =
                           todo_update(@, UpdateTodoSerializer_validate(data, now))]
    /\ UNCHANGED <<User, Project, ProjectMember, reqs, todo_id_seq, now>>

\* DELETE todos/<todo_id>/ by user.
destroy_todo(user, todo_id) ==
    /\ call = NoCall
    /\ user \in User
    /\ IF todo_id \notin todo_get_queryset(Todo, user)
       THEN /\ call' = CallBase("destroy-todo", user)
                           @@ [status |-> 404, todo_id |-> todo_id]
            /\ Todo' = Todo
       ELSE /\ call' = CallBase("destroy-todo", user)
                           @@ [status |-> 204, todo_id |-> todo_id]
            /\ Todo' = [i \in DOMAIN Todo \ {todo_id} |-> Todo[i]]
    /\ UNCHANGED <<User, Project, ProjectMember, reqs, todo_id_seq, now>>

\* Time passes between two requests.
Tick ==
    /\ call = NoCall
    /\ now < MaxTime
    /\ now' = now + 1
    /\ UNCHANGED <<User, Project, ProjectMember, call, reqs, Todo, todo_id_seq>>

\* ---------------------------------------------------------------- SpecTodo
\* The todo operations, one call at a time, while the clock runs.

\* No todo yet; the projects have no member.
InitTodo ==
    /\ User = UserIds
    /\ Project = [p \in ProjectIds |-> MaxCap]
    /\ ProjectMember = [x \in Pairs |-> 0]
    /\ call = NoCall
    /\ reqs = [r \in Slots |-> Idle]
    /\ Todo = <<>>
    /\ todo_id_seq = 0
    /\ now = 1

NextTodo ==
    \/ \E user \in UserIds, name \in Names : create_todo(user, name)
    \/ \E user \in UserIds, todo_id \in 1..MaxTodos, partial \in BOOLEAN,
          data \in UpdateData : update_todo(user, todo_id, partial, data)
    \/ \E user \in UserIds, todo_id \in 1..MaxTodos : destroy_todo(user, todo_id)
    \/ Tick
    \/ Respond

SpecTodo == InitTodo /\ [][NextTodo]_vars

\* ----------------------------------------------------------------- SpecApp
\* Every operation that writes to the tables, one at a time: add-members,
\* remove-members, the todo operations, and the deletion of a user row or of
\* a project row (no view deletes them; the models declare what the deletion
\* takes with it).

\* Faulty variant: the memberships of the deleted user stay.
cascade_user_None(pm, user_id) == pm

\* on_delete=CASCADE of ProjectMember.member: the rows of the deleted user go.
cascade_user(pm, user_id) ==
    [x \in Pairs |-> IF x[1] = user_id THEN 0 ELSE pm[x]]

\* on_delete=CASCADE of ProjectMember.project: the rows of the deleted
\* project go.
cascade_project(pm, project_id) ==
    [x \in Pairs |-> IF x[2] = project_id THEN 0 ELSE pm[x]]

\* A user is deleted; the cascade takes the user's memberships and todos.
DeleteUser(user_id) ==
    /\ call = NoCall
    /\ user_id \in User
    /\ User' = User \ {user_id}
    /\ ProjectMember' = cascade_user(ProjectMember, user_id)
    /\ Todo' = [i \in {j \in DOMAIN Todo : Todo[j].user # user_id} |-> Todo[i]]
    /\ call' = [op |-> "delete-user", id |-> user_id, before |-> ProjectMember]
    /\ UNCHANGED <<Project, reqs, todo_id_seq, now>>

\* A project is deleted; the cascade takes its memberships.
DeleteProject(project_id) ==
    /\ call = NoCall
    /\ project_id \in DOMAIN Project
    /\ Project' = [p \in DOMAIN Project \ {project_id} |-> Project[p]]
    /\ ProjectMember' = cascade_project(ProjectMember, project_id)
    /\ call' = [op |-> "delete-project", id |-> project_id, before |-> ProjectMember]
    /\ UNCHANGED <<User, reqs, todo_vars>>

\* Lists without repetition, ascending, of ids that are or were users' ids.
AppLists == {SortedList(S) : S \in (SUBSET UserIds) \ {{}}}

\* Every project has room for MaxCap members and has exactly one; no todo.
InitApp ==
    /\ InitConc
    /\ \A p \in ProjectIds : Project[p] = MaxCap

NextApp ==
    \/ \E user \in UserIds, project_id \in ProjectIds, data \in AppLists :
          user \in User /\ add_members_to_project(user, project_id, data)
    \/ \E user \in UserIds, project_id \in ProjectIds, data \in AppLists :
          user \in User /\ remove_members_from_project(user, project_id, data)
    \/ \E user_id \in UserIds : DeleteUser(user_id)
    \/ \E project_id \in ProjectIds : DeleteProject(project_id)
    \/ \E user \in UserIds : todo_id_seq = 0 /\ create_todo(user, "a")
    \/ \E user \in UserIds :
          update_todo(user, 1, TRUE, [done |-> Present(TRUE), todo |-> Absent,
                                      date_completed |-> Absent])
    \/ \E user \in UserIds : destroy_todo(user, 1)
    \/ Respond

SpecApp == InitApp /\ [][NextApp]_vars

\* GET todos/ by user: the requesting user's todos (their ids; the pages
\* of the response hold no other).
list_todos(user) ==
    /\ call = NoCall
    /\ user \in User
    /\ call' = CallBase("list-todos", user)
                   @@ [status |-> 200, result |-> todo_get_queryset(Todo, user)]
    /\ UNCHANGED <<User, Project, ProjectMember, reqs, todo_vars>>

\* GET todos/<todo_id>/ by user.
retrieve_todo(user, todo_id) ==
    /\ call = NoCall
    /\ user \in User
    /\ call' = CallBase("retrieve-todo", user)
                   @@ [status |-> IF todo_id \in todo_get_queryset(Todo, user)
                                  THEN 200 ELSE 404,
                       todo_id |-> todo_id]
    /\ UNCHANGED <<User, Project, ProjectMember, reqs, todo_vars>>

\* ----------------------------------------------------------------- SpecOwn
\* Every request of the todo API, reads included, at one time of the clock.

NextOwn ==
    \/ \E user \in UserIds, name \in Names : create_todo(user, name)
    \/ \E user \in UserIds, todo_id \in 1..MaxTodos, partial \in BOOLEAN,
          data \in UpdateData : update_todo(user, todo_id, partial, data)
    \/ \E user \in UserIds, todo_id \in 1..MaxTodos : destroy_todo(user, todo_id)
    \/ \E user \in UserIds : list_todos(user)
    \/ \E user \in UserIds, todo_id \in 1..MaxTodos : retrieve_todo(user, todo_id)
    \/ Respond

SpecOwn == InitTodo /\ [][NextOwn]_vars

\* -------------------------------------------------------------- SpecReport
\* fetch_users_with_n_pending_todos (src/todoapp/todos/utils.py), a read-only
\* query, asked over any todo table.

\* SQL's SUM over a column of 1s and NULLs: NULL when no value is non-null.
SqlSum(ones) ==
    IF ones = 0 THEN None ELSE Present(ones)

\* The annotation pending_count of user u:
\* Sum(Case(When(todo__done=False, then=1))) over the user's joined todo
\* rows.
pending_count(todos, u) ==
    SqlSum(Cardinality({i \in DOMAIN todos : todos[i].user = u /\ ~todos[i].done}))

\* fetch_users_with_n_pending_todos(n): the users kept by
\* filter(pending_count=n), a comparison that is not true of NULL, each with
\* the pending_count serialized.
fetch_users_with_n_pending_todos(users, todos, n) ==
    {[id |-> u, pending_count |-> n] :
        u \in {v \in users : pending_count(todos, v) = Present(n)}}

\* The rows a todo table can hold at time 1: a todo that is done was
\* completed then.
TodoRows ==
    {[user |-> u, name |-> m, done |-> d, date_created |-> Timestamp(1),
      date_completed |-> IF d THEN Timestamp(1) ELSE None] :
        u \in UserIds, m \in Names, d \in BOOLEAN}

\* Any todo table over the ids given out so far; the projects have no
\* member.
InitReport ==
    /\ User = UserIds
    /\ Project = [p \in ProjectIds |-> MaxCap]
    /\ ProjectMember = [x \in Pairs |-> 0]
    /\ call = NoCall
    /\ reqs = [r \in Slots |-> Idle]
    /\ \E D \in SUBSET (1..MaxTodos) : Todo \in [D -> TodoRows]
    /\ todo_id_seq = MaxTodos
    /\ now = 1

\* The report is asked for n.
report_users_with_n_pending_todos(n) ==
    /\ call = NoCall
    /\ call' = [op |-> "pending-report", n |-> n,
                result |-> fetch_users_with_n_pending_todos(User, Todo, n)]
    /\ UNCHANGED <<User, Project, ProjectMember, reqs, todo_vars>>

NextReport ==
    \/ \E n \in 0..MaxTodos : report_users_with_n_pending_todos(n)
    \/ Respond

SpecReport == InitReport /\ [][NextReport]_vars

\* ------------------------------------------------- the claims, under Spec
\* What the claims speak of, stated from the call record (what was asked and
\* the table before the call) and the tables after it.

\* The call was served past get_object (the requester is a member).
Resolved == call.op \in Ops /\ call.status # 404

\* The deduplicated ids of the request.
Requested == {call.data[i] : i \in 1..Len(call.data)}

\* An add-members call whose list has 1 to 10 entries, all ids of users.
ValidAdd ==
    /\ call.op = "add-members"
    /\ call.status # 404
    /\ Len(call.data) \in 1..10
    /\ Requested \subseteq User

\* u was a member of the target project when the call was made.
WasMember(u) == call.before[<<u, call.project_id>>] >= 1

\* Memberships of u, over all projects, when the call was made.
CountBefore(u) == UserRows(call.before, u)

\* The tentatively accepted ids: not a member, in fewer than 2 projects.
Accepted == {u \in Requested : ~WasMember(u) /\ CountBefore(u) < 2}

\* existing_members: the members of the target project before the call.
ExistingBefore == ProjectRows(call.before, call.project_id)

\* The batch overflows the capacity.
Overflow == ExistingBefore + Cardinality(Accepted) > Project[call.project_id]

\* C1: whenever an add-members call served atomically persists at least one
\* membership, the target project's member count right after the call is at
\* most the project's max_members.
C1_CapacityAfterAdd ==
    (call.op = "add-members" /\ ProjectMember # call.before)
        => ProjectRows(ProjectMember, call.project_id) <= Project[call.project_id]

\* An add call has just filled its project to exactly max_members.
C1_Witness ==
    /\ call.op = "add-members"
    /\ ProjectMember # call.before
    /\ ProjectRows(ProjectMember, call.project_id) = Project[call.project_id]

\* C2: starting with every user in at most 2 projects, after any sequence of
\* add-members and remove-members calls served one at a time no user is a
\* member of more than 2 projects.
C2_AtMostTwoProjects ==
    \A u \in UserIds : UserRows(ProjectMember, u) <= 2

\* An add call has just given a user a second project, and rejected
\* another requested user who was in two projects already.
C2_Witness ==
    /\ ValidAdd
    /\ \E u \in Requested :
          /\ ~WasMember(u)
          /\ ProjectMember[<<u, call.project_id>>] = 1
          /\ UserRows(ProjectMember, u) = 2
    /\ \E v \in Requested : ~WasMember(v) /\ CountBefore(v) = 2

\* C3: an add-members call with only valid ids whose existing_members plus
\* tentatively accepted users exceed max_members persists nothing: the
\* membership table after the call equals the table before it.
C3_OverflowPersistsNothing ==
    (ValidAdd /\ Overflow) => ProjectMember = call.before

\* An overflowing batch of two accepted users for a project with one place
\* left: one of them would fit, none is stored.
C3_Witness ==
    /\ ValidAdd
    /\ Overflow
    /\ Cardinality(Accepted) = 2
    /\ ExistingBefore + 1 = Project[call.project_id]
    /\ ProjectMember = call.before

\* C6: an add-members or remove-members call naming an id of no user fails
\* with a validation error on the user_ids field and leaves the membership
\* table unchanged, also for the valid ids of the request.
C6_InvalidIdsFailWhole ==
    (Resolved /\ ~(Requested \subseteq User))
        => /\ call.status = 400
           /\ call.errors.field = "user_ids"
           /\ ProjectMember = call.before

\* A remove call naming a member of the project and an id of no user.
C6_Witness ==
    /\ Resolved
    /\ call.op = "remove-members"
    /\ ~(Requested \subseteq User)
    /\ \E u \in Requested : u \in User /\ WasMember(u)
    /\ call.status = 400

\* C7: each (member, project) pair is stored at most once; an add-members
\* call naming a current member of the project creates no membership for
\* that user and reports "User is already a member", and the same call
\* served again leaves the membership table unchanged.
C7_AddIsIdempotent ==
    /\ \A x \in Pairs : ProjectMember[x] <= 1
    /\ ValidAdd =>
          /\ \A u \in Requested : WasMember(u) =>
                /\ call.status = 200
                /\ call.logs[u] = <<"User is already a member">>
                /\ ProjectMember[<<u, call.project_id>>] = call.before[<<u, call.project_id>>]
          /\ Serve("add-members", User, Project, ProjectMember,
                   call.user, call.project_id, call.data).pm = ProjectMember

\* An add call that named a current member and a user it has just added.
C7_Witness ==
    /\ ValidAdd
    /\ \E u \in Requested : WasMember(u)
    /\ \E v \in Requested :
          ~WasMember(v) /\ ProjectMember[<<v, call.project_id>>] = 1

\* C9: in an add-members call with only valid ids each id is classified on
\* its own: a current member gets "User is already a member" (also when in
\* 2 projects), a non-member in 2 or more projects gets "Cannot add as user
\* is already a member in two projects", every other id is tentatively
\* accepted; when capacity is not exceeded each accepted id gets "Member
\* added successfully" and the project's members afterwards are its previous
\* members plus the accepted ids.
C9_Classification ==
    ValidAdd =>
        /\ call.status = 200
        /\ DOMAIN call.logs = Requested
        /\ \A u \in Requested :
              /\ WasMember(u) => call.logs[u] = <<"User is already a member">>
              /\ (~WasMember(u) /\ CountBefore(u) >= 2) =>
                    call.logs[u] = <<"Cannot add as user is already a member in two projects">>
              /\ (u \in Accepted /\ ~Overflow) =>
                    call.logs[u] = <<"Member added successfully">>
        /\ ~Overflow =>
              Members(ProjectMember, call.project_id)
                  = Members(call.before, call.project_id) \cup Accepted

\* One call with an id of each class: a member who is in 2 projects, a
\* non-member in 2 projects, and an accepted user who is stored.
C9_Witness ==
    /\ ValidAdd
    /\ ~Overflow
    /\ \E u \in Requested : WasMember(u) /\ CountBefore(u) = 2
    /\ \E u \in Requested : ~WasMember(u) /\ CountBefore(u) = 2
    /\ \E u \in Accepted : ProjectMember[<<u, call.project_id>>] = 1

\* The remaining capacity the claim states.
C10_N ==
    IF ExistingBefore < Project[call.project_id]
    THEN Project[call.project_id] - ExistingBefore
    ELSE 0

\* C10: when an add-members batch overflows capacity, every tentatively
\* accepted user's message is "Max limit reached for project members. N
\* members can be added." with N = max_members - existing_members when
\* existing_members < max_members and N = 0 otherwise; N is never negative.
C10_RemainingCapacityMessage ==
    (ValidAdd /\ Overflow) =>
        /\ call.status = 200
        /\ C10_N >= 0
        /\ \A u \in Accepted :
              call.logs[u] = <<"Max limit reached for project members. ", C10_N,
                               " members can be added.">>

\* The scenario of the documentation: one member, max_members 2, two
\* eligible users requested; both are told that 1 member can be added.
C10_Witness ==
    /\ ValidAdd
    /\ Overflow
    /\ ExistingBefore = 1
    /\ Project[call.project_id] = 2
    /\ Cardinality(Accepted) = 2
    /\ \A u \in Accepted :
          call.logs[u] = <<"Max limit reached for project members. ", 1,
                           " members can be added.">>

\* ------------------------------------- further claims, under Spec

\* A call served past get_object whose list has 1 to 10 entries, all ids of
\* users.
ValidCall ==
    /\ Resolved
    /\ Len(call.data) \in 1..10
    /\ Requested \subseteq User

\* C11: for every add-members or remove-members call whose ids all match
\* users, the keys of the returned logs are the deduplicated requested ids
\* (one outcome per id, no other id); an add of repeated copies of one
\* eligible id creates exactly one membership.
C11_LogKeysAreRequestedIds ==
    ValidCall =>
        /\ call.status = 200
        /\ DOMAIN call.logs = Requested
        /\ (/\ call.op = "add-members"
            /\ Cardinality(Requested) = 1
            /\ Accepted = Requested
            /\ ~Overflow)
           => /\ \A u \in Requested : ProjectMember[<<u, call.project_id>>] = 1
              /\ Sum(ProjectMember, Pairs) = Sum(call.before, Pairs) + 1

\* An add of a list of at least two copies of one eligible id: one key, one
\* row created.
C11_Witness ==
    /\ ValidAdd
    /\ Len(call.data) >= 2
    /\ Cardinality(Requested) = 1
    /\ Accepted = Requested
    /\ DOMAIN call.logs = Requested
    /\ Sum(ProjectMember, Pairs) = Sum(call.before, Pairs) + 1

\* C12: after a remove-members call with only valid ids the project's
\* members are its previous members minus the requested ids; a requested
\* member gets "Member removed successfully", a requested non-member gets
\* "User is not a member of the project"; no row of another user or another
\* project changes and no row is created.
C12_RemoveExact ==
    (ValidCall /\ call.op = "remove-members") =>
        /\ call.status = 200
        /\ Members(ProjectMember, call.project_id)
               = Members(call.before, call.project_id) \ Requested
        /\ \A u \in Requested :
              call.logs[u] = IF WasMember(u)
                             THEN <<"Member removed successfully">>
                             ELSE <<"User is not a member of the project">>
        /\ \A x \in Pairs :
              ProjectMember[x] =
                  IF x[2] = call.project_id /\ x[1] \in Requested
                  THEN 0 ELSE call.before[x]

\* A remove naming a member, who is also in another project, and a
\* non-member.
C12_Witness ==
    /\ ValidCall
    /\ call.op = "remove-members"
    /\ \E u \in Requested :
          /\ WasMember(u)
          /\ ProjectMember[<<u, call.project_id>>] = 0
          /\ UserRows(ProjectMember, u) = 1
    /\ \E v \in Requested : ~WasMember(v)

\* The orders in which the ids of S can be iterated.
Orders(S) ==
    {o \in [1..Cardinality(S) -> S] : Range(o) = S}

\* The project as get_object returned it to the call.
ProjectBefore ==
    CHOOSE x \in get_object(Project, call.before, call.user, call.project_id) : TRUE

\* C13: the outcome of an add-members call (the message of every id and the
\* memberships persisted) is the same for every order in which the requested
\* ids are iterated, and the same as for the ids listed in ascending order
\* without repetition: the capacity is checked once, after the loop.
C13_OrderIndependent ==
    ValidAdd =>
        /\ \A order \in Orders(Requested) :
              LET r == add_members_in_order(
                           ProjectBefore,
                           get_user_wise_project_count(User, call.before, Requested),
                           order)
              IN /\ r.logs = call.logs
                 /\ ProjectMember = [x \in Pairs |->
                        IF x[2] = call.project_id /\ x[1] \in r.created
                        THEN call.before[x] + 1 ELSE call.before[x]]
        /\ LET s == Serve("add-members", User, Project, call.before, call.user,
                          call.project_id, SortedList(Requested))
           IN s.pm = ProjectMember /\ s.call.logs = call.logs

\* Two eligible ids asked for one free place, listed in descending order:
\* both are refused, whichever comes first.
C13_Witness ==
    /\ ValidAdd
    /\ Len(call.data) = 2
    /\ call.data[1] > call.data[2]
    /\ Accepted = Requested
    /\ ExistingBefore + 1 = Project[call.project_id]
    /\ ProjectMember = call.before
    /\ \A u \in Requested : call.logs[u] # <<"Member added successfully">>

\* C14: an add-members or remove-members call by a user who is not a member
\* of the target project at the time of the call is rejected with 404 and
\* changes no membership; only calls by members get past get_object.
C14_OnlyMembersManage ==
    call.op \in Ops =>
        /\ call.before[<<call.user, call.project_id>>] = 0
              => (call.status = 404 /\ ProjectMember = call.before)
        /\ call.status # 404 => call.before[<<call.user, call.project_id>>] >= 1

\* A user outside a project that has members asked to add to it: 404.
C14_Witness ==
    /\ call.op = "add-members"
    /\ call.before[<<call.user, call.project_id>>] = 0
    /\ ProjectRows(call.before, call.project_id) >= 1
    /\ call.status = 404
    /\ ProjectMember = call.before

\* The values formatted into a message: a message is the sequence of its
\* literal parts with the formatted values between them, at the even places.
NamedIds(message) ==
    {message[i] : i \in {j \in 1..Len(message) : j % 2 = 0}}

\* A call served past get_object and the length check that asks for at least
\* one id matching no user.
InvalidIdsCall ==
    /\ Resolved
    /\ Len(call.data) \in 1..10
    /\ Requested \ User # {}

\* C16: when a request contains ids matching no user, the validation error
\* it fails with carries exactly the set of those ids.
C16_ErrorNamesInvalidIds ==
    InvalidIdsCall =>
        /\ call.status = 400
        /\ NamedIds(call.errors.message) = Requested \ User

\* C16, as the code has it: the request fails with the field error
\* user_ids: "Invalid ids present", the same for every set of invalid ids;
\* the error carries no id, and no membership changes.
C16_FixedFieldError ==
    InvalidIdsCall =>
        /\ call.status = 400
        /\ call.errors = [field |-> "user_ids", message |-> <<"Invalid ids present">>]
        /\ NamedIds(call.errors.message) = {}
        /\ ProjectMember = call.before

\* A request naming only an id that matches no user, refused.
C16_Witness ==
    /\ InvalidIdsCall
    /\ Requested \cap User = {}
    /\ call.status = 400
    /\ call.errors.message = <<"Invalid ids present">>

\* C24: a member may remove any member of the project, themselves
\* included; a project without members is resolved for no caller, so every
\* add-members or remove-members call leaves it without members: once empty
\* it is empty in every later state.
C24_EmptyStaysEmpty ==
    call.op \in Ops =>
        /\ \A p \in ProjectIds :
              ProjectRows(call.before, p) = 0 => ProjectRows(ProjectMember, p) = 0
        /\ ProjectRows(call.before, call.project_id) = 0 => call.status = 404
        /\ (ValidCall /\ call.op = "remove-members") =>
              /\ call.status = 200
              /\ \A u \in Requested :
                    WasMember(u) =>
                        /\ ProjectMember[<<u, call.project_id>>] = 0
                        /\ call.logs[u] = <<"Member removed successfully">>

\* The only member of a project removes themselves: the project is empty.
C24_Witness ==
    /\ ValidCall
    /\ call.op = "remove-members"
    /\ call.user \in Requested
    /\ ProjectRows(call.before, call.project_id) = 1
    /\ call.status = 200
    /\ ProjectRows(ProjectMember, call.project_id) = 0

\* C20: only tentatively accepted users count toward the capacity: when
\* existing_members plus the accepted ids fit, the accepted ids are stored
\* however many other ids of the batch are rejected; when the batch
\* overflows, the rejected ids keep their own message.
C20_OnlyAcceptedCount ==
    ValidAdd =>
        /\ ~Overflow =>
              \A u \in Accepted :
                  /\ ProjectMember[<<u, call.project_id>>] = 1
                  /\ call.logs[u] = <<"Member added successfully">>
        /\ Overflow =>
              \A u \in Requested \ Accepted :
                  call.logs[u] =
                      IF WasMember(u)
                      THEN <<"User is already a member">>
                      ELSE <<"Cannot add as user is already a member in two projects">>

\* The accepted id takes the last place of the project although the batch,
\* counted with its rejected id, is larger than the room left.
C20_Witness ==
    /\ ValidAdd
    /\ ~Overflow
    /\ Accepted # {}
    /\ Requested \ Accepted # {}
    /\ ExistingBefore + Cardinality(Requested) > Project[call.project_id]
    /\ \A u \in Accepted : ProjectMember[<<u, call.project_id>>] = 1

\* --------------------------------------------- the claims, under SpecConc
\* Stated from what each request read (its project snapshot and per-user
\* counts) and the tables once the requests are done.

\* Request r ran add_members to its end (a response or an IntegrityError).
Completed(r) == reqs[r].pc = "done" /\ reqs[r].status \in {200, 500}

\* The ids request r tentatively accepted, from what it read.
AcceptedBy(r) ==
    {u \in reqs[r].user_ids :
        /\ u \notin reqs[r].project.users
        /\ reqs[r].user_wise_project_count[u] < 2}

\* Request r passed its capacity test with a non-empty batch: it performed
\* its bulk insert.
Inserts(r) ==
    /\ AcceptedBy(r) # {}
    /\ reqs[r].project.existing_members + Cardinality(AcceptedBy(r))
           <= reqs[r].project.max_members

\* Request r has resolved project p (it is past get_object).
OnProject(r, p) ==
    /\ reqs[r].pc \in {"add_members", "bulk_create", "done"}
    /\ reqs[r].pc = "done" => reqs[r].status \in {200, 500}
    /\ reqs[r].project.id = p

\* r1 and r2 are the two add-members calls on their project, and performed
\* their inserts on equal snapshots: neither snapshot saw the other's
\* insert, so both were taken before either insert.
SameSnapshot(r1, r2) ==
    /\ r1 # r2
    /\ Completed(r1) /\ Completed(r2)
    /\ reqs[r1].project = reqs[r2].project
    /\ Inserts(r1) /\ Inserts(r2)
    /\ \A r \in Slots \ {r1, r2} : ~OnProject(r, reqs[r1].project.id)

\* C4: when two add-members calls on the same project both take their
\* project snapshot before either performs its bulk insert, the project's
\* member count is at most max_members when the calls have completed.
C4_CapacityUnderInterleaving ==
    \A r1, r2 \in Slots :
        SameSnapshot(r1, r2) =>
            ProjectRows(ProjectMember, reqs[r1].project.id)
                <= Project[reqs[r1].project.id]

\* C5: when add-members calls on different projects each read the project
\* count of the same user u before any of them inserts, u is a member of at
\* most 2 projects after the calls complete.
C5_UserLimitUnderInterleaving ==
    \A r1, r2 \in Slots :
        (/\ r1 # r2
         /\ Completed(r1) /\ Completed(r2)
         /\ reqs[r1].status = 200 /\ reqs[r2].status = 200
         /\ reqs[r1].project.id # reqs[r2].project.id
         /\ Inserts(r1) /\ Inserts(r2))
        => \A u \in AcceptedBy(r1) \cap AcceptedBy(r2) :
              reqs[r1].user_wise_project_count[u] = reqs[r2].user_wise_project_count[u]
                  => UserRows(ProjectMember, u) <= 2

\* C8: when two add-members calls on the same project both take their
\* snapshot before either insert and both tentatively accept the same user,
\* the pair (user, project) is stored exactly once: one bulk insert is
\* rejected by the unique constraint and that call ends in an IntegrityError
\* instead of returning "Member added successfully".
C8_DuplicateInsertRejected ==
    \A r1, r2 \in Slots :
        SameSnapshot(r1, r2) =>
            \A u \in AcceptedBy(r1) \cap AcceptedBy(r2) :
                /\ ProjectMember[<<u, reqs[r1].project.id>>] = 1
                /\ {reqs[r1].status, reqs[r2].status} = {200, 500}
                /\ \A r \in {r1, r2} :
                      reqs[r].status = 200
                          => reqs[r].logs[u] = <<"Member added successfully">>

\* Two calls have accepted the same user on equal snapshots; the second to
\* insert has failed and the pair is stored once.
C8_Witness ==
    \E r1, r2 \in Slots :
        /\ SameSnapshot(r1, r2)
        /\ \E u \in AcceptedBy(r1) \cap AcceptedBy(r2) :
              ProjectMember[<<u, reqs[r1].project.id>>] = 1
        /\ reqs[r1].status = 200
        /\ reqs[r2].status = 500

\* --------------------------------------------- the claims, under SpecLen

\* The call was refused by the length validators of the user_ids field.
LengthRejected ==
    /\ call.status = 400
    /\ call.errors.field = "user_ids"
    /\ call.errors.message \in {<<"min_length">>, <<"max_length">>}

\* C15: a request is rejected with a validation failure exactly when its
\* batch, the deduplicated set of requested ids, has fewer than 1 or more
\* than 10 ids.
C15_BatchSizeDecides ==
    Resolved =>
        (LengthRejected <=> Cardinality(Requested) \notin 1..10)

\* C15, as the code has it: a request by a member of the project is
\* rejected by the length validators, with no membership changed, exactly
\* when the list as sent, repetitions counted, has fewer than 1 or more than
\* 10 entries; every other such request reaches the validator.
C15_ListLengthDecides ==
    Resolved =>
        /\ LengthRejected <=> Len(call.data) \notin 1..10
        /\ LengthRejected => ProjectMember = call.before

\* Eleven copies of the id of one user: a batch of one id, rejected.
C15_Witness ==
    /\ Resolved
    /\ Len(call.data) = 11
    /\ Cardinality(Requested) = 1
    /\ Requested \subseteq User
    /\ call.status = 400
    /\ call.errors.message = <<"max_length">>
    /\ ProjectMember = call.before

\* --------------------------------------------- the claims, under SpecApp

\* C17: every stored membership refers to an existing user and an existing
\* project; deleting a user or a project deletes exactly the memberships of
\* that user or project and leaves every other membership as it was.
C17_MembershipsReferToExistingRows ==
    /\ \A x \in Pairs :
          ProjectMember[x] > 0 => (x[1] \in User /\ x[2] \in DOMAIN Project)
    /\ call.op = "delete-user" =>
          /\ call.id \notin User
          /\ ProjectMember = [x \in Pairs |->
                 IF x[1] = call.id THEN 0 ELSE call.before[x]]
    /\ call.op = "delete-project" =>
          /\ call.id \notin DOMAIN Project
          /\ ProjectMember = [x \in Pairs |->
                 IF x[2] = call.id THEN 0 ELSE call.before[x]]

\* A user with a membership is deleted while another user is a member of
\* the same project.
C17_Witness ==
    /\ call.op = "delete-user"
    /\ \E p \in ProjectIds :
          /\ call.before[<<call.id, p>>] = 1
          /\ ProjectMember[<<call.id, p>>] = 0
          /\ \E v \in User : ProjectMember[<<v, p>>] = 1

\* The operations of the todo API.
TodoOps == {"create-todo", "update-todo", "destroy-todo"}

\* C19: a membership (u, P) comes into existence only by an add-members
\* call on P whose batch contains u, and ceases to exist only by a
\* remove-members call on P whose batch contains u or by the deletion of u
\* or of P; the todo operations and the calls on other projects leave the
\* memberships of P unchanged.
C19_MembershipLifecycle ==
    call # NoCall =>
        /\ \A x \in Pairs :
              /\ ProjectMember[x] > call.before[x] =>
                    /\ call.op = "add-members"
                    /\ call.status = 200
                    /\ call.project_id = x[2]
                    /\ x[1] \in Requested
              /\ ProjectMember[x] < call.before[x] =>
                    \/ /\ call.op = "remove-members"
                       /\ call.status = 200
                       /\ call.project_id = x[2]
                       /\ x[1] \in Requested
                    \/ call.op = "delete-user" /\ call.id = x[1]
                    \/ call.op = "delete-project" /\ call.id = x[2]
        /\ call.op \in TodoOps => ProjectMember = call.before

\* An add-members call creates a membership of a user on one project while
\* the user's membership of another project stays as it was.
C19_Witness ==
    /\ call.op = "add-members"
    /\ call.status = 200
    /\ \E u \in Requested :
          /\ call.before[<<u, call.project_id>>] = 0
          /\ ProjectMember[<<u, call.project_id>>] = 1
          /\ \E q \in ProjectIds \ {call.project_id} :
                /\ ProjectMember[<<u, q>>] = 1
                /\ call.before[<<u, q>>] = 1

\* -------------------------------------------- the claims, under SpecTodo

\* An update or partial update that was carried out.
UpdatedTodo == call.op = "update-todo" /\ call.status = 200

C22_CompletedIffDone ==
    /\ \A i \in DOMAIN Todo : (Todo[i].date_completed # None) <=> Todo[i].done
    /\ (UpdatedTodo /\ call.data.done = Absent) =>
          /\ Todo[call.todo_id].done = call.row.done
          /\ Todo[call.todo_id].date_completed = call.row.date_completed

\* --------------------------------------------- the claims, under SpecOwn

\* The requests of the todo API.
TodoRequests == TodoOps \cup {"list-todos", "retrieve-todo"}

\* C23: a todo's owner is the user who created it and never changes; a
\* list, retrieve, update, partial-update or delete request by a user never
\* returns, modifies or deletes a todo of another user.
C23_OwnerIsolation ==
    call.op \in TodoRequests =>
        /\ \A i \in DOMAIN call.todos :
              call.todos[i].user # call.user =>
                  (i \in DOMAIN Todo /\ Todo[i] = call.todos[i])
        /\ \A i \in DOMAIN Todo \cap DOMAIN call.todos :
              Todo[i].user = call.todos[i].user
        /\ \A i \in DOMAIN Todo \ DOMAIN call.todos :
              Todo[i].user = call.user
        /\ call.op = "list-todos" =>
              \A i \in call.result : call.todos[i].user = call.user
        /\ (call.op \in {"retrieve-todo", "update-todo", "destroy-todo"}
               /\ call.status # 404) =>
              call.todos[call.todo_id].user = call.user

\* A user who has a todo of their own asks to delete the todo of another
\* user: not found, and the todo stays.
C23_Witness ==
    /\ call.op = "destroy-todo"
    /\ call.todo_id \in DOMAIN call.todos
    /\ call.todos[call.todo_id].user # call.user
    /\ \E i \in DOMAIN call.todos : call.todos[i].user = call.user
    /\ call.status = 404
    /\ Todo = call.todos

\* ------------------------------------------ the claims, under SpecReport

\* The number of todos of u with done = false.
PendingTodos(u) ==
    Cardinality({i \in DOMAIN Todo : Todo[i].user = u /\ ~Todo[i].done})

\* C21: fetch_users_with_n_pending_todos(n) returns exactly the users whose
\* number of todos with done = false is n, each with pending_count = n, for
\* every n >= 0; for n = 0, every user without a pending todo.
C21_UsersWithNPending ==
    call.op = "pending-report" =>
        call.result = {[id |-> u, pending_count |-> call.n] :
                          u \in {v \in User : PendingTodos(v) = call.n}}

=============================================================================
